---- MODULE Spec2Model ----
(***************************************************************************)
(* Voice assistant bridge (bridge.py) and entity discovery                 *)
(* (discover_entities.py).                                                 *)
(*                                                                         *)
(* The bridge is one paho-mqtt network loop that calls on_mqtt_message for *)
(* every received message.  A handler talks to three outside parties: the  *)
(* LLM (one HTTP POST), Home Assistant (one HTTP POST per service call)    *)
(* and the MQTT broker (publish on the TTS topic).  The model stops a      *)
(* handler at each of these calls, lets the environment choose the outcome *)
(* and runs the Python code in between as pure operators.                  *)
(*                                                                         *)
(* JSON values are modelled by records.  A key that is absent from a JSON  *)
(* object is the string Missing, a JSON null (or any other value that is   *)
(* not of the expected type) is the string Null.                           *)
(***************************************************************************)
EXTENDS Integers, Sequences, FiniteSets, TLC

(* ---------------------------------------------------------------------- *)
(* Bounds of the model                                                     *)
(* ---------------------------------------------------------------------- *)
MaxMsgs == 2

MaxActions == 2

MaxDispatchLen == 1

MaxEntities == 2

(* ---------------------------------------------------------------------- *)
(* Config                                                                  *)
(* ---------------------------------------------------------------------- *)
TOPIC_ASR == "hermes/asr/textCaptured"

TOPIC_TTS == "hermes/tts/say"

TOPIC_HOTWORD == "hermes/hotword/detected"

Missing == "<missing>"

Null == "<null>"

RepeatText == "I didn't catch that. Could you please repeat?"

FallbackText == "Sorry, I'm having trouble processing that request."

(* dict.get(key, default) on a JSON object modelled as a record *)
Get(obj, key, default) == IF obj[key] = Missing THEN default ELSE obj[key]

(* "is not None" in place of truthiness *)
TruthyNotNone(v) == v \notin {Missing, Null}

(* Python truthiness of a value taken from JSON *)
Truthy(v) == v \notin {Missing, Null, ""}

(* ---------------------------------------------------------------------- *)
(* discover_entities.py                                                    *)
(* ---------------------------------------------------------------------- *)
Categories ==
    <<"lights", "switches", "climate", "fans", "automations", "scripts",
      "media_players", "covers", "sensors", "other">>

CategorySet == {Categories[i] : i \in 1..Len(Categories)}

(* a name (token sequence) whose key is absent *)
NoName == <<Missing>>

(* An entity_id is a sequence of tokens; "." is the separator token.       *)
(* entity_id.split('.')[0]: the tokens before the first ".", all of them   *)
(* when there is none.                                                     *)
RECURSIVE SplitFirst(_)
SplitFirst(id) ==
    IF id = <<>> \/ Head(id) = "." THEN <<>>
    ELSE <<Head(id)>> \o SplitFirst(Tail(id))

(* the chain with binary_sensor left out *)
CategoryOfWrongSensor(domain) ==
    IF domain = <<"light">> THEN "lights"
    ELSE IF domain = <<"switch">> THEN "switches"
    ELSE IF domain = <<"climate">> THEN "climate"
    ELSE IF domain = <<"fan">> THEN "fans"
    ELSE IF domain = <<"automation">> THEN "automations"
    ELSE IF domain = <<"script">> THEN "scripts"
    ELSE IF domain = <<"media_player">> THEN "media_players"
    ELSE IF domain = <<"cover">> THEN "covers"
    ELSE IF domain = <<"sensor">> THEN "sensors"
    ELSE "other"

(* the if/elif chain of categorize_entities *)
CategoryOf(domain) ==
    IF domain = <<"light">> THEN "lights"
    ELSE IF domain = <<"switch">> THEN "switches"
    ELSE IF domain = <<"climate">> THEN "climate"
    ELSE IF domain = <<"fan">> THEN "fans"
    ELSE IF domain = <<"automation">> THEN "automations"
    ELSE IF domain = <<"script">> THEN "scripts"
    ELSE IF domain = <<"media_player">> THEN "media_players"
    ELSE IF domain = <<"cover">> THEN "covers"
    ELSE IF domain \in {<<"sensor">>, <<"binary_sensor">>} THEN "sensors"
    ELSE "other"

(* entity_info built for one entity of the API reply *)
(* friendly_name defaults to the entity_id when the attribute is absent *)
EntityInfo(entity) ==
    [entity_id |-> entity.entity_id,
     friendly_name |-> IF entity.friendly_name = NoName
                       THEN entity.entity_id
                       ELSE entity.friendly_name,
     state |-> entity.state]

EmptyCategories == [c \in CategorySet |-> <<>>]

RECURSIVE CategorizeFrom(_, _)
CategorizeFrom(entities, categories) ==
    IF entities = <<>> THEN categories
    ELSE LET entity == Head(entities)
             cat == CategoryOf(SplitFirst(entity.entity_id))
         IN CategorizeFrom(Tail(entities),
                [categories EXCEPT ![cat] = Append(@, EntityInfo(entity))])

categorize_entities(entities) == CategorizeFrom(entities, EmptyCategories)

(* ---------------------------------------------------------------------- *)
(* bridge.py: the entity catalog                                           *)
(* ---------------------------------------------------------------------- *)
get_default_entities == EmptyCategories

(* ha_entities.json as found at startup: kind "absent" (no file),          *)
(* "corrupt" (open or json.load raises, or a value has no len()), or       *)
(* "json" with the decoded mapping in value.                               *)
load_entities(file) ==
    IF file.kind = "json" THEN file.value ELSE get_default_entities

PromptCategories == <<"lights", "switches", "climate", "fans", "automations", "scripts">>

(* One category's loop of generate_entity_list: the lines built so far,    *)
(* ending in a line with raised = TRUE when an entity lacks entity_id or   *)
(* friendly_name (KeyError).                                               *)
RECURSIVE EntityLines(_)
EntityLines(list) ==
    IF list = <<>> THEN <<>>
    ELSE IF Head(list).entity_id = NoName \/ Head(list).friendly_name = NoName
         THEN <<[raised |-> TRUE, entity_id |-> NoName, friendly_name |-> NoName]>>
         ELSE <<[raised |-> FALSE, entity_id |-> Head(list).entity_id,
                 friendly_name |-> Head(list).friendly_name]>>
              \o EntityLines(Tail(list))

RECURSIVE LinesFrom(_, _)
LinesFrom(catalog, i) ==
    IF i > Len(PromptCategories) THEN <<>>
    ELSE LET cat == PromptCategories[i]
             here == IF cat \in DOMAIN catalog THEN EntityLines(catalog[cat]) ELSE <<>>
         IN IF here # <<>> /\ here[Len(here)].raised THEN here
            ELSE here \o LinesFrom(catalog, i + 1)

(* generate_entity_list consuming the lists it walks over *)
generate_entity_list_draining(catalog) ==
    [ok |-> TRUE, lines |-> <<>>,
     entities |-> [c \in DOMAIN catalog |-> <<>>]]

(* generate_entity_list reads self.entities and returns the prompt lines;  *)
(* ok is FALSE when building a line raised KeyError.  The catalog it       *)
(* leaves behind is the catalog it was given.                              *)
generate_entity_list(catalog) ==
    LET lines == LinesFrom(catalog, 1)
        ok == lines = <<>> \/ ~lines[Len(lines)].raised
    IN [ok |-> ok,
        lines |-> IF ok THEN lines ELSE <<>>,
        entities |-> catalog]

(* ---------------------------------------------------------------------- *)
(* bridge.py: Home Assistant function calls                                *)
(* ---------------------------------------------------------------------- *)
BNone == [kind |-> "missing", n |-> 0]

BNum(n) == [kind |-> "number", n |-> n]

BText == [kind |-> "text", n |-> 0]

(* parameters of a function call: kind "missing" (no "parameters" key),    *)
(* "nonmap" (null, a list, a string, ...) or "map"                         *)
Params(entity_id, action, brightness, temperature, mode) ==
    [kind |-> "map", entity_id |-> entity_id, action |-> action,
     brightness |-> brightness, temperature |-> temperature, mode |-> mode]

EmptyParams == Params(Missing, Missing, BNone, Missing, Missing)

NoParams == [EmptyParams EXCEPT !.kind = "missing"]

NonMapParams == [EmptyParams EXCEPT !.kind = "nonmap"]

(* service_data posted to Home Assistant; a key left out is Missing *)
ServiceData(entity_id, brightness, temperature, hvac_mode) ==
    [entity_id |-> entity_id, brightness |-> brightness,
     temperature |-> temperature, hvac_mode |-> hvac_mode]

NoData == ServiceData(Missing, BNone, Missing, Missing)

(* What a control_* method does: out = "call" (call_ha_service is called   *)
(* with domain, service, data), "none" (it returns without a call) or      *)
(* "exc" (it raises before any call).                                      *)
Call(domain, service, data) ==
    [out |-> "call", domain |-> domain, service |-> service, data |-> data]

NoCall == [out |-> "none", domain |-> "", service |-> "", data |-> NoData]

Raises == [NoCall EXCEPT !.out = "exc"]

OnlyEntity(params) == ServiceData(Get(params, "entity_id", Null), BNone, Missing, Missing)

control_light(params) ==
    IF params.kind = "nonmap" THEN Raises
    ELSE LET action == Get(params, "action", Null)
             brightness == params.brightness
         IN IF action = "turn_on"
            THEN IF brightness.kind = "text" THEN Raises
                 ELSE Call("light", "turn_on",
                           [OnlyEntity(params) EXCEPT !.brightness =
                               IF brightness.kind = "number"
                               THEN BNum((brightness.n * 255) \div 100)
                               ELSE BNone])
            ELSE IF action = "turn_off" THEN Call("light", "turn_off", OnlyEntity(params))
            ELSE IF action = "toggle" THEN Call("light", "toggle", OnlyEntity(params))
            ELSE NoCall

control_switch(params) ==
    IF params.kind = "nonmap" THEN Raises
    ELSE LET action == Get(params, "action", Null)
         IN IF action \in {"turn_on", "turn_off", "toggle"}
            THEN Call("switch", action, OnlyEntity(params))
            ELSE NoCall

control_climate(params) ==
    IF params.kind = "nonmap" THEN Raises
    ELSE LET temperature == Get(params, "temperature", Null)
             mode == Get(params, "mode", Null)
         IN Call("climate", "set_temperature",
                 ServiceData(Get(params, "entity_id", Null), BNone,
                             IF Truthy(temperature) THEN temperature ELSE Missing,
                             IF Truthy(mode) THEN mode ELSE Missing))

create_reminder(params) ==
    IF params.kind = "nonmap" THEN Raises ELSE NoCall

control_automation(params) ==
    IF params.kind = "nonmap" THEN Raises
    ELSE LET action == Get(params, "action", "trigger")
         IN IF action = "trigger" THEN Call("automation", "trigger", OnlyEntity(params))
            ELSE IF action = "turn_on" THEN Call("automation", "turn_on", OnlyEntity(params))
            ELSE IF action = "turn_off" THEN Call("automation", "turn_off", OnlyEntity(params))
            ELSE IF action = "toggle" THEN Call("automation", "toggle", OnlyEntity(params))
            ELSE NoCall

(* control_script calling a service "run" for the action "run" *)
control_script_run_service(params) ==
    IF params.kind = "nonmap" THEN Raises
    ELSE LET action == Get(params, "action", "run")
         IN IF action = "run" THEN Call("script", "run", OnlyEntity(params))
            ELSE IF action = "turn_on" THEN Call("script", "turn_on", OnlyEntity(params))
            ELSE IF action = "turn_off" THEN Call("script", "turn_off", OnlyEntity(params))
            ELSE IF action = "toggle" THEN Call("script", "toggle", OnlyEntity(params))
            ELSE NoCall

control_script(params) ==
    IF params.kind = "nonmap" THEN Raises
    ELSE LET action == Get(params, "action", "run")
         IN IF action \in {"run", "turn_on"} THEN Call("script", "turn_on", OnlyEntity(params))
            ELSE IF action = "turn_off" THEN Call("script", "turn_off", OnlyEntity(params))
            ELSE IF action = "toggle" THEN Call("script", "toggle", OnlyEntity(params))
            ELSE NoCall

(* An element of the "functions" list: a JSON object with "name" and       *)
(* "parameters", or something that is no object (isObject = FALSE).        *)
FunctionCall(name, parameters) ==
    [isObject |-> TRUE, name |-> name, parameters |-> parameters]

NotAnObject == [isObject |-> FALSE, name |-> Missing, parameters |-> NoParams]

(* the if/elif chain inside the try of execute_ha_function *)
Dispatch(func_name, params) ==
    IF func_name = "light_control" THEN control_light(params)
    ELSE IF func_name = "switch_control" THEN control_switch(params)
    ELSE IF func_name = "climate_control" THEN control_climate(params)
    ELSE IF func_name = "create_reminder" THEN create_reminder(params)
    ELSE IF func_name = "automation_control" THEN control_automation(params)
    ELSE IF func_name = "script_control" THEN control_script(params)
    ELSE NoCall

(* execute_ha_function up to its service call.  out = "raise": the two     *)
(* .get calls before the try raise AttributeError, which leaves the        *)
(* function; "caught": the try caught an exception of a control_* method;  *)
(* "none": returned without a call; "call": call_ha_service is called.     *)
execute_ha_function(function_call) ==
    IF ~function_call.isObject THEN [NoCall EXCEPT !.out = "raise"]
    ELSE LET func_name == Get(function_call, "name", Null)
             params == IF function_call.parameters.kind = "missing"
                       THEN EmptyParams
                       ELSE function_call.parameters
             r == Dispatch(func_name, params)
         IN IF r.out = "exc" THEN [NoCall EXCEPT !.out = "caught"] ELSE r

(* ---------------------------------------------------------------------- *)
(* bridge.py: messages and replies                                         *)
(* ---------------------------------------------------------------------- *)
(* message.payload: kind "undecodable" (decode() or json.loads raises),    *)
(* "nonobject" (JSON, but no object) or "object".                          *)
Payload(kind, text, sessionId) == [kind |-> kind, text |-> text, sessionId |-> sessionId]

Message(topic, payload) == [topic |-> topic, payload |-> payload]

(* "functions" of a structured reply: kind "missing", "nonlist" (a value   *)
(* that cannot be iterated) or "list"                                      *)
Functions(kind, items) == [kind |-> kind, items |-> items]

(* The stripped "response" text of the LLM.  braces: it starts with "{"    *)
(* and ends with "}"; parses: json.loads accepts it, and then speech and   *)
(* functions are the members of the decoded object.                        *)
Text(raw, braces, parses, speech, functions) ==
    [raw |-> raw, braces |-> braces, parses |-> parses, speech |-> speech,
     functions |-> functions]

PlainText(raw) == Text(raw, FALSE, FALSE, Missing, Functions("missing", <<>>))

(* Outcome of the POST to the LLM: kind "conn_error", "timeout",           *)
(* "http_error" (raise_for_status), "not_json" (response.json() raises),   *)
(* "no_response" (JSON without a "response" member) or "ok".               *)
LlmOutcome(kind, text) == [kind |-> kind, text |-> text]

(* query_llm answering a body that is no JSON with an empty text *)
query_llm_lenient(outcome) ==
    IF outcome.kind \in {"conn_error", "timeout", "http_error"}
    THEN [raised |-> TRUE, text |-> PlainText("")]
    ELSE IF outcome.kind \in {"no_response", "not_json"}
    THEN [raised |-> FALSE, text |-> PlainText("")]
    ELSE [raised |-> FALSE, text |-> outcome.text]

(* query_llm after the POST: the text returned, or raised *)
query_llm(outcome) ==
    IF outcome.kind \in {"conn_error", "timeout", "http_error", "not_json"}
    THEN [raised |-> TRUE, text |-> PlainText("")]
    ELSE IF outcome.kind = "no_response"
    THEN [raised |-> FALSE, text |-> PlainText("")]
    ELSE [raised |-> FALSE, text |-> outcome.text]

(* ---------------------------------------------------------------------- *)
(* State                                                                   *)
(* ---------------------------------------------------------------------- *)
VARIABLES
    entities,   \* self.entities, the catalog
    loaded,     \* the catalog as load_entities left it (history)
    inbox,      \* messages received by the client, not yet handed to on_message
    delivered,  \* number of messages the broker has sent so far
    pc,         \* where the handler is: "idle", "llm", "ha", "tts"
    cur,        \* the message being handled
    frame,      \* local variables of the running handler
    trace,      \* what the handler of the latest message did (history)
    started,    \* number of on_mqtt_message calls
    handled,    \* number of on_mqtt_message calls that returned
    escaped,    \* an exception left on_mqtt_message
    api,        \* discover_entities.py: what discover_ha_entities returned
    file,       \* ha_entities.json
    dpc,        \* discover_entities.py: "start", "done"
    pubOrder,   \* ids of the messages whose response was published (history)
    lastStep    \* id of the message the latest outside call was made for (history)

vars == <<entities, loaded, inbox, delivered, pc, cur, frame, trace, started,
          handled, escaped, api, file, dpc, pubOrder, lastStep>>

bridgeVars == <<entities, loaded, inbox, delivered, pc, cur, frame, trace, started,
                handled, escaped, pubOrder, lastStep>>

discoverVars == <<api, file, dpc>>

NoMsg == [id |-> 0, topic |-> "", payload |-> Payload("undecodable", Missing, Missing)]

(* locals of handle_voice_input / process_llm_response.  stage names the   *)
(* send_tts_response call that is next: "repeat" (line 161), "process"     *)
(* (lines 250, 253), "decode_error" (line 257) or "fallback" (line 171);   *)
(* say is the text it is called with.                                      *)
Frame(user_text, session_id, entity_list) ==
    [user_text |-> user_text, session_id |-> session_id, entity_list |-> entity_list,
     response_text |-> "", stage |-> "", say |-> "", functions |-> <<>>, idx |-> 0,
     call |-> NoCall]

NoFrame == Frame("", "", <<>>)

(* events of trace *)
RecvEv(m) == [kind |-> "recv", id |-> m.id, topic |-> m.topic, payload |-> m.payload]

LlmEv(user_text, lines, outcome) ==
    [kind |-> "llm", user_text |-> user_text, lines |-> lines, outcome |-> outcome]

ExecEv(i, out) == [kind |-> "exec", idx |-> i, out |-> out]

HaEv(i, call, ok) ==
    [kind |-> "ha", idx |-> i, domain |-> call.domain, service |-> call.service,
     data |-> call.data, ok |-> ok]

PubEv(topic, text, session_id, ok) ==
    [kind |-> "pub", topic |-> topic, text |-> text, siteId |-> "default",
     sessionId |-> session_id, ok |-> ok]

(* ---------------------------------------------------------------------- *)
(* Exception handlers                                                      *)
(* ---------------------------------------------------------------------- *)
(* on_mqtt_message catching only decoding errors *)
OnMessageCatchesDecodeOnly(exc) == exc = "ValueError"

(* except Exception of on_mqtt_message (line 144) *)
OnMessageCatches(exc) == TRUE

(* handle_voice_input catching only request errors *)
VoiceInputCatchesRequestOnly(exc) == exc = "RequestException"

(* except Exception of handle_voice_input (line 168) *)
VoiceInputCatches(exc) == TRUE

(* except json.JSONDecodeError of process_llm_response (line 255) *)
ProcessCatches(exc) == exc = "JSONDecodeError"

(* except Exception of execute_ha_function (line 283) *)
ExecuteCatches(exc) == TRUE

(* ---------------------------------------------------------------------- *)
(* The loop of process_llm_response                                        *)
(* ---------------------------------------------------------------------- *)
(* for func in functions, from element i on, up to the next service call:  *)
(* stop = "call" (element idx calls call_ha_service), "raise" (element idx *)
(* raised out of execute_ha_function) or "end" (the list is exhausted).    *)
RECURSIVE RunFunctions(_, _)
RunFunctions(functions, i) ==
    IF i > Len(functions)
    THEN [evs |-> <<>>, stop |-> "end", idx |-> i, call |-> NoCall]
    ELSE LET r == execute_ha_function(functions[i])
         IN IF r.out = "call"
            THEN [evs |-> <<ExecEv(i, "call")>>, stop |-> "call", idx |-> i, call |-> r]
            ELSE IF r.out = "raise"
            THEN [evs |-> <<ExecEv(i, "raise")>>, stop |-> "raise", idx |-> i,
                  call |-> NoCall]
            ELSE LET rest == RunFunctions(functions, i + 1)
                 IN [rest EXCEPT !.evs = <<ExecEv(i, r.out)>> \o @]

(* ---------------------------------------------------------------------- *)
(* Returning and raising                                                   *)
(* ---------------------------------------------------------------------- *)
(* on_mqtt_message returns *)
Return ==
    /\ pc' = "idle"
    /\ cur' = NoMsg
    /\ frame' = NoFrame
    /\ handled' = handled + 1
    /\ escaped' = escaped

(* an exception reaches the except clause of on_mqtt_message; one that it  *)
(* does not catch ends loop_forever                                        *)
RaiseInOnMessage(exc) ==
    IF OnMessageCatches(exc) THEN Return
    ELSE /\ pc' = "dead"
         /\ cur' = NoMsg
         /\ frame' = NoFrame
         /\ handled' = handled
         /\ escaped' = TRUE

(* the fallback sent without the session_id argument *)
RaiseInVoiceInputDefaultSession(exc, m, f) ==
    IF VoiceInputCatches(exc)
    THEN /\ pc' = "tts"
         /\ cur' = m
         /\ frame' = [f EXCEPT !.stage = "fallback", !.say = FallbackText,
                               !.session_id = "default"]
         /\ UNCHANGED <<handled, escaped>>
    ELSE RaiseInOnMessage(exc)

(* an exception reaches the except clause of handle_voice_input, which     *)
(* answers with the fallback text                                          *)
RaiseInVoiceInput(exc, m, f) ==
    IF VoiceInputCatches(exc)
    THEN /\ pc' = "tts"
         /\ cur' = m
         /\ frame' = [f EXCEPT !.stage = "fallback", !.say = FallbackText]
         /\ UNCHANGED <<handled, escaped>>
    ELSE RaiseInOnMessage(exc)

(* an exception is raised inside the try of process_llm_response; a        *)
(* JSONDecodeError is answered with the response text                      *)
RaiseInProcess(exc, m, f) ==
    IF ProcessCatches(exc)
    THEN /\ pc' = "tts"
         /\ cur' = m
         /\ frame' = [f EXCEPT !.stage = "decode_error", !.say = f.response_text]
         /\ UNCHANGED <<handled, escaped>>
    ELSE RaiseInVoiceInput(exc, m, f)

(* send_tts_response is about to publish *)
Say(stage, text, m, f) ==
    /\ pc' = "tts"
    /\ cur' = m
    /\ frame' = [f EXCEPT !.stage = stage, !.say = text]
    /\ UNCHANGED <<handled, escaped>>

(* the loop of process_llm_response goes on with element i, after the      *)
(* events pre; when it is through, the speech response is sent             *)
ContinueLoop(f, i, pre) ==
    LET r == RunFunctions(f.functions, i)
        g == [f EXCEPT !.idx = r.idx, !.call = r.call]
    IN /\ trace' = trace \o pre \o r.evs
       /\ IF r.stop = "call"
          THEN /\ pc' = "ha"
               /\ frame' = g
               /\ UNCHANGED <<cur, handled, escaped>>
          ELSE IF r.stop = "raise"
          THEN RaiseInProcess("AttributeError", cur, g)
          ELSE Say("process", f.say, cur, g)

(* ---------------------------------------------------------------------- *)
(* Actions of the bridge                                                   *)
(* ---------------------------------------------------------------------- *)
(* the broker sends a message on a subscribed topic *)
Deliver(m) ==
    /\ delivered < MaxMsgs
    /\ ~escaped
    /\ delivered' = delivered + 1
    /\ inbox' = Append(inbox, m)
    /\ UNCHANGED <<entities, loaded, pc, cur, frame, trace, started, handled, escaped,
                   pubOrder, lastStep>>
    /\ UNCHANGED discoverVars

(* on_message called from a thread of its own per message *)
LoopReadyAlways == pc # "dead"

(* loop_forever may call on_message: the previous call has returned *)
LoopReady == pc = "idle"

(* on_mqtt_message, handle_hotword, and handle_voice_input up to the POST  *)
(* of query_llm or to its first send_tts_response                          *)
OnMqttMessage ==
    /\ LoopReady
    /\ inbox # <<>>
    /\ LET msg == Head(inbox)
           m == [id |-> started + 1, topic |-> msg.topic, payload |-> msg.payload]
           payload == msg.payload
           user_text == Get(payload, "text", "")
           session_id == Get(payload, "sessionId", "default")
           gen == generate_entity_list(entities)
           f == Frame(user_text, session_id, gen.lines)
       IN /\ inbox' = Tail(inbox)
          /\ started' = started + 1
          /\ trace' = <<RecvEv(m)>>
          /\ IF payload.kind = "undecodable"
             THEN RaiseInOnMessage("ValueError") /\ entities' = entities
             ELSE IF msg.topic = TOPIC_ASR
             THEN IF payload.kind = "nonobject"
                  THEN RaiseInOnMessage("AttributeError") /\ entities' = entities
                  ELSE IF ~Truthy(user_text) \/ user_text = "[unk]"
                  THEN Say("repeat", RepeatText, m, f) /\ entities' = entities
                  ELSE /\ entities' = gen.entities
                       /\ IF ~gen.ok
                          THEN RaiseInVoiceInput("KeyError", m, f)
                          ELSE /\ pc' = "llm"
                               /\ cur' = m
                               /\ frame' = f
                               /\ UNCHANGED <<handled, escaped>>
             ELSE IF msg.topic = TOPIC_HOTWORD
             THEN /\ entities' = entities
                  /\ IF payload.kind = "nonobject"
                     THEN RaiseInOnMessage("AttributeError")
                     ELSE Return
             ELSE Return /\ entities' = entities
    /\ UNCHANGED <<loaded, delivered, pubOrder, lastStep>>
    /\ UNCHANGED discoverVars

(* the POST of query_llm ends with outcome; then process_llm_response up   *)
(* to the first service call or to its send_tts_response                   *)
LlmReplies(outcome) ==
    /\ pc = "llm"
    /\ lastStep' = cur.id
    /\ LET q == query_llm(outcome)
           ev == LlmEv(frame.user_text, frame.entity_list, outcome)
           text == q.text
           f == [frame EXCEPT !.response_text = text.raw]
       IN IF q.raised
          THEN /\ trace' = Append(trace, ev)
               /\ RaiseInVoiceInput("RequestException", cur, frame)
          ELSE IF ~text.braces
          THEN /\ trace' = Append(trace, ev)
               /\ Say("process", text.raw, cur, f)
          ELSE IF ~text.parses
          THEN /\ trace' = Append(trace, ev)
               /\ RaiseInProcess("JSONDecodeError", cur, f)
          ELSE IF text.functions.kind = "nonlist"
          THEN /\ trace' = Append(trace, ev)
               /\ RaiseInProcess("TypeError", cur, f)
          ELSE ContinueLoop(
                   [f EXCEPT !.say = Get(text, "speech", text.raw),
                             !.functions = IF text.functions.kind = "missing"
                                           THEN <<>>
                                           ELSE text.functions.items],
                   1, <<ev>>)
    /\ UNCHANGED <<entities, loaded, inbox, delivered, started, pubOrder>>
    /\ UNCHANGED discoverVars

(* the POST of call_ha_service ends: ok, or it raised (no connection,      *)
(* timeout, error status); then the loop goes on                           *)
HaReplies(ok) ==
    /\ pc = "ha"
    /\ lastStep' = cur.id
    /\ LET ev == HaEv(frame.idx, frame.call, ok)
       IN IF ok \/ ExecuteCatches("RequestException")
          THEN ContinueLoop(frame, frame.idx + 1, <<ev>>)
          ELSE /\ trace' = Append(trace, ev)
               /\ RaiseInProcess("RequestException", cur, frame)
    /\ UNCHANGED <<entities, loaded, inbox, delivered, started, pubOrder>>
    /\ UNCHANGED discoverVars

(* mqtt_client.publish of send_tts_response ends: ok, or it raised *)
Publishes(ok) ==
    /\ pc = "tts"
    /\ lastStep' = cur.id
    /\ trace' = Append(trace, PubEv(TOPIC_TTS, frame.say, frame.session_id, ok))
    /\ pubOrder' = IF ok THEN Append(pubOrder, cur.id) ELSE pubOrder
    /\ IF ok THEN Return
       ELSE IF frame.stage = "process" THEN RaiseInProcess("PublishError", cur, frame)
       ELSE IF frame.stage = "decode_error" THEN RaiseInVoiceInput("PublishError", cur, frame)
       ELSE RaiseInOnMessage("PublishError")
    /\ UNCHANGED <<entities, loaded, inbox, delivered, started>>
    /\ UNCHANGED discoverVars

(* ---------------------------------------------------------------------- *)
(* discover_entities.py: main                                              *)
(* ---------------------------------------------------------------------- *)
(* result: what discover_ha_entities returned, failed (None) or the list   *)
(* of states; nothing is written for None or for an empty list             *)
Main(result) ==
    /\ dpc = "start"
    /\ dpc' = "done"
    /\ api' = result
    /\ file' = IF result.failed \/ result.states = <<>>
               THEN file
               ELSE [kind |-> "json", value |-> categorize_entities(result.states)]
    /\ UNCHANGED bridgeVars

(* ---------------------------------------------------------------------- *)
(* Inputs                                                                  *)
(* ---------------------------------------------------------------------- *)
RECURSIVE SeqsUpTo(_, _)
SeqsUpTo(S, n) ==
    IF n = 0 THEN {<<>>}
    ELSE LET shorter == SeqsUpTo(S, n - 1)
         IN shorter \cup {Append(q, x) : q \in {r \in shorter : Len(r) = n - 1}, x \in S}

Entity(entity_id, friendly_name) ==
    [entity_id |-> entity_id, friendly_name |-> friendly_name, state |-> "on"]

Domains ==
    {"light", "switch", "climate", "fan", "automation", "script", "media_player",
     "cover", "sensor", "binary_sensor", "zone"}

EntityIds ==
    {<<d, ".", "a">> : d \in Domains}
        \cup {<<"light">>, <<"light", ".", "a", ".", "b">>, <<".", "light">>}

ApiEntities == {Entity(id, n) : id \in EntityIds, n \in {NoName, <<"Lamp">>}}

ApiResults ==
    {[failed |-> TRUE, states |-> <<>>]}
        \cup {[failed |-> FALSE, states |-> q] : q \in SeqsUpTo(ApiEntities, MaxEntities)}

NoFile == [kind |-> "absent", value |-> EmptyCategories]

(* ha_entities.json as the bridge may find it *)
BridgeFiles ==
    {NoFile,
     [kind |-> "corrupt", value |-> EmptyCategories],
     [kind |-> "json",
      value |-> categorize_entities(<<Entity(<<"light", ".", "a">>, <<"Lamp">>),
                                      Entity(<<"sensor", ".", "a">>, NoName)>>)],
     [kind |-> "json",
      value |-> [lights |-> <<Entity(<<"light", ".", "a">>, NoName)>>]]}

Session1 == "s1"

Session2 == "s2"

CoreMessages ==
    {Message(TOPIC_ASR, Payload("object", "lights on", Session1)),
     Message(TOPIC_ASR, Payload("object", "lights on", Missing)),
     Message(TOPIC_ASR, Payload("object", "[unk]", Session2)),
     Message(TOPIC_ASR, Payload("object", Missing, Session2)),
     Message(TOPIC_ASR, Payload("nonobject", Missing, Missing)),
     Message(TOPIC_ASR, Payload("undecodable", Missing, Missing)),
     Message(TOPIC_HOTWORD, Payload("object", Missing, Missing)),
     Message(TOPIC_HOTWORD, Payload("nonobject", Missing, Missing))}

LightOn == FunctionCall("light_control", Params("light.a", "turn_on", BNone, Missing, Missing))

CoreEntries ==
    {LightOn,
     FunctionCall("light_control", Params("light.a", "turn_on", BText, Missing, Missing)),
     FunctionCall("open_pod_bay", NoParams),
     NotAnObject}

ActionValues == {Missing, Null, "turn_on", "turn_off", "toggle", "trigger", "run", "dim"}

FunctionNames ==
    {"light_control", "switch_control", "climate_control", "create_reminder",
     "automation_control", "script_control", "open_pod_bay", Missing}

AllParams ==
    {NoParams, NonMapParams}
        \cup {Params("light.a", a, BNone, Missing, Missing) : a \in ActionValues}
        \cup {Params(Missing, "turn_on", b, Missing, Missing) : b \in {BNum(50), BText}}
        \cup {Params("climate.a", Missing, BNone, "21", "heat")}

AllEntries ==
    {FunctionCall(n, p) : n \in FunctionNames, p \in AllParams} \cup {NotAnObject}

(* the texts an LLM may answer with, its function calls taken from entries *)
Texts(entries, maxLen) ==
    {PlainText("Hello"),
     Text("{oops}", TRUE, FALSE, Missing, Functions("missing", <<>>)),
     Text("{}", TRUE, TRUE, Missing, Functions("missing", <<>>)),
     Text("{speech, functions: null}", TRUE, TRUE, "OK", Functions("nonlist", <<>>))}
        \cup {Text("{speech, functions}", TRUE, TRUE, "OK", Functions("list", q)) :
                q \in SeqsUpTo(entries, maxLen)}

LlmOutcomes(entries, maxLen) ==
    {LlmOutcome(k, PlainText("")) :
        k \in {"conn_error", "timeout", "http_error", "not_json", "no_response"}}
        \cup {LlmOutcome("ok", t) : t \in Texts(entries, maxLen)}

(* ---------------------------------------------------------------------- *)
(* Specifications                                                          *)
(* ---------------------------------------------------------------------- *)
(* the bridge after __init__, with ha_entities.json one of files *)
InitBridge(files) ==
    /\ file \in files
    /\ entities = load_entities(file)
    /\ loaded = entities
    /\ inbox = <<>>
    /\ delivered = 0
    /\ pc = "idle"
    /\ cur = NoMsg
    /\ frame = NoFrame
    /\ trace = <<>>
    /\ started = 0
    /\ handled = 0
    /\ escaped = FALSE
    /\ pubOrder = <<>>
    /\ lastStep = 0
    /\ api = [failed |-> TRUE, states |-> <<>>]

Init == InitBridge(BridgeFiles) /\ dpc = "done"

Next ==
    \/ \E m \in CoreMessages : Deliver(m)
    \/ OnMqttMessage
    \/ \E o \in LlmOutcomes(CoreEntries, MaxActions) : LlmReplies(o)
    \/ \E ok \in BOOLEAN : HaReplies(ok)
    \/ \E ok \in BOOLEAN : Publishes(ok)

Spec == Init /\ [][Next]_vars

(* one transcription message, answered with every kind of function call *)
InitDispatch == InitBridge({NoFile}) /\ dpc = "done"

NextDispatch ==
    \/ /\ delivered = 0
       /\ Deliver(Message(TOPIC_ASR, Payload("object", "lights on", Session1)))
    \/ OnMqttMessage
    \/ \E o \in LlmOutcomes(AllEntries, MaxDispatchLen) : LlmReplies(o)
    \/ \E ok \in BOOLEAN : HaReplies(ok)
    \/ \E ok \in BOOLEAN : Publishes(ok)

SpecDispatch == InitDispatch /\ [][NextDispatch]_vars

(* one run of discover_entities.py *)
InitDiscover == InitBridge({NoFile}) /\ dpc = "start"

NextDiscover == \E r \in ApiResults : Main(r)

SpecDiscover == InitDiscover /\ [][NextDiscover]_vars

(* ---------------------------------------------------------------------- *)
(* Reading the trace                                                       *)
(* ---------------------------------------------------------------------- *)
Of(kind) == SelectSeq(trace, LAMBDA e : e.kind = kind)

CountBefore(kind, i) == Cardinality({j \in 1..(i - 1) : trace[j].kind = kind})

(* the handler of the latest message has returned *)
Returned == pc = "idle" /\ trace # <<>>

PublishFailed == \E i \in DOMAIN trace : trace[i].kind = "pub" /\ ~trace[i].ok

Transcription == trace # <<>> /\ trace[1].topic = TOPIC_ASR

ObjectPayload == trace # <<>> /\ trace[1].payload.kind = "object"

LlmFailureKinds == {"conn_error", "timeout", "http_error", "not_json"}

(* the LLM answered with text that json.loads decodes to an object *)
Structured ==
    /\ Of("llm") # <<>>
    /\ Of("llm")[1].outcome.kind = "ok"
    /\ Of("llm")[1].outcome.text.braces
    /\ Of("llm")[1].outcome.text.parses

ReplyText == Of("llm")[1].outcome.text

(* the list of action requests of a structured reply *)
ReplyItems ==
    IF Structured /\ ReplyText.functions.kind = "list" THEN ReplyText.functions.items
    ELSE <<>>

ReplySpeech == IF ReplyText.speech = Missing THEN ReplyText.raw ELSE ReplyText.speech

Attempted(i) == \E k \in DOMAIN trace : trace[k].kind = "exec" /\ trace[k].idx = i

KnownFunctions ==
    {"light_control", "switch_control", "climate_control", "create_reminder",
     "automation_control", "script_control"}

(* ---------------------------------------------------------------------- *)
(* C1 - exactly one speech response per transcription message              *)
(* ---------------------------------------------------------------------- *)
(* C1: when the handler of a transcription message with a JSON object      *)
(* payload has returned and no publish call raised, exactly one speech     *)
(* response was published, on the TTS topic, and it is the last thing the  *)
(* handler did; while the handler runs nothing has been published yet.     *)
C1_ExactlyOneResponse ==
    (Transcription /\ ObjectPayload /\ ~PublishFailed) =>
        /\ pc \in {"idle", "llm", "ha", "tts"}
        /\ pc # "idle" => Of("pub") = <<>>
        /\ pc = "idle" =>
              /\ Len(Of("pub")) = 1
              /\ trace[Len(trace)].kind = "pub"
              /\ trace[Len(trace)].topic = TOPIC_TTS
              /\ handled = started

(* C1 witness: a structured reply whose second element raised out of       *)
(* execute_ha_function after a service call failed, answered once          *)
C1_Witness ==
    /\ Returned /\ Transcription /\ ObjectPayload /\ ~PublishFailed
    /\ Len(ReplyItems) = 2
    /\ \E i \in DOMAIN trace : trace[i].kind = "ha" /\ ~trace[i].ok
    /\ \E i \in DOMAIN trace : trace[i].kind = "exec" /\ trace[i].out = "raise"
    /\ Len(Of("pub")) = 1

(* ---------------------------------------------------------------------- *)
(* C2 - fixed order of the steps of one message                            *)
(* ---------------------------------------------------------------------- *)
(* C2: the LLM query precedes every action and service call; the actions   *)
(* of the reply are executed one at a time in list order, a service call   *)
(* belonging to the action executed just before it; a speech response is   *)
(* published only when every action of the list has been attempted, and    *)
(* nothing is executed or called after it.                                 *)
C2_FixedOrder ==
    \A i \in DOMAIN trace :
        LET e == trace[i]
        IN /\ e.kind \in {"exec", "ha"} => CountBefore("llm", i) = 1
           /\ e.kind = "exec" => e.idx = CountBefore("exec", i) + 1
           /\ e.kind = "ha" => trace[i - 1].kind = "exec" /\ trace[i - 1].idx = e.idx
           /\ e.kind = "pub" =>
                 /\ CountBefore("exec", i) = Len(ReplyItems)
                 /\ \A j \in (i + 1)..Len(trace) : trace[j].kind = "pub"

(* ---------------------------------------------------------------------- *)
(* C3 - no failure leaves on_mqtt_message                                  *)
(* ---------------------------------------------------------------------- *)
(* C3: no exception leaves on_mqtt_message: the loop is never ended by     *)
(* one, every handler that is not running has returned, and a waiting      *)
(* message can then be handled.                                            *)
C3_NoFailureEscapes ==
    /\ ~escaped
    /\ pc \in {"idle", "llm", "ha", "tts"}
    /\ pc = "idle" => handled = started /\ LoopReady

(* C3 witness: a handler has returned after both its response and its     *)
(* fallback failed to publish, and the next message is waiting             *)
C3_Witness ==
    /\ Returned
    /\ handled = started
    /\ Len(Of("pub")) = 2
    /\ \A i \in DOMAIN trace : trace[i].kind = "pub" => ~trace[i].ok
    /\ inbox # <<>>

(* ---------------------------------------------------------------------- *)
(* C4 - the catalog is immutable and nothing else is kept                  *)
(* ---------------------------------------------------------------------- *)
(* what the handler did is fixed by the message, the catalog loaded at     *)
(* startup and the replies received                                        *)
EffectsFollowInputs ==
    \A i \in DOMAIN trace :
        LET e == trace[i]
        IN /\ e.kind = "llm" =>
                 /\ e.user_text = trace[1].payload.text
                 /\ e.lines = LinesFrom(loaded, 1)
           /\ e.kind = "ha" =>
                 /\ e.idx \in 1..Len(ReplyItems)
                 /\ Call(e.domain, e.service, e.data) = execute_ha_function(ReplyItems[e.idx])
           /\ e.kind = "pub" =>
                 e.text \in {RepeatText, FallbackText}
                              \cup (IF Of("llm") = <<>> THEN {}
                                    ELSE IF Of("llm")[1].outcome.kind = "no_response" THEN {""}
                                    ELSE {ReplyText.raw, ReplySpeech})

(* C4: the catalog is at all times the one loaded at startup; between two  *)
(* messages no local of a handler is left; what a handler does follows     *)
(* from its message, the catalog and the replies it gets.                  *)
C4_CatalogImmutable ==
    /\ entities = loaded
    /\ loaded = load_entities(file)
    /\ pc = "idle" => cur = NoMsg /\ frame = NoFrame
    /\ pc # "idle" => cur.id = started /\ trace[1] = RecvEv(cur)
    /\ EffectsFollowInputs

(* C4 witness: a second message was handled with an LLM query and service  *)
(* calls, one of them failing, with a catalog that is not empty            *)
C4_Witness ==
    /\ Returned
    /\ handled = 2
    /\ loaded["lights"] # <<>>
    /\ Of("llm") # <<>>
    /\ \E i \in DOMAIN trace : trace[i].kind = "ha" /\ ~trace[i].ok

(* ---------------------------------------------------------------------- *)
(* C5 - handlers run one after another                                     *)
(* ---------------------------------------------------------------------- *)
(* C5: at most one handler is running and it is the one of the message     *)
(* received last; every earlier handler has returned; every outside call   *)
(* made so far was made for a message no later than the current one; the   *)
(* responses were published in the order of receipt.                       *)
C5_RunToCompletion ==
    /\ started - handled \in {0, 1}
    /\ pc = "idle" <=> started = handled
    /\ pc # "idle" => cur.id = started
    /\ lastStep <= started
    /\ pc = "idle" => Len(inbox) = delivered - started
    /\ \A i \in DOMAIN pubOrder : \A j \in DOMAIN pubOrder : i < j => pubOrder[i] < pubOrder[j]

(* C5 witness: the second message has had its LLM query and a service     *)
(* call and is about to be answered, the first one having been answered    *)
C5_Witness ==
    /\ pc = "tts"
    /\ cur.id = 2
    /\ pubOrder = <<1>>
    /\ lastStep = 2
    /\ Of("ha") # <<>>

(* ---------------------------------------------------------------------- *)
(* C6 - wake word logged, transcription forwarded                          *)
(* ---------------------------------------------------------------------- *)
(* the text of the transcription message, as handle_voice_input reads it *)
SpokenText == Get(trace[1].payload, "text", "")

(* C6 as stated: once the handler has returned, a wake-word message has    *)
(* caused no query, call or publish, and a transcription message has had   *)
(* its text sent to the LLM in exactly one query.                          *)
C6_Original ==
    Returned =>
        /\ trace[1].topic = TOPIC_HOTWORD => Len(trace) = 1
        /\ trace[1].topic = TOPIC_ASR =>
              /\ Len(Of("llm")) = 1
              /\ Of("llm")[1].user_text = trace[1].payload.text

(* the transcription can be forwarded: a JSON object with a text that is   *)
(* not empty and not "[unk]", and a catalog whose prompt lines can be      *)
(* built                                                                   *)
Forwardable ==
    /\ ObjectPayload
    /\ SpokenText \notin {"", Null, "[unk]"}
    /\ \A c \in DOMAIN loaded : \A k \in DOMAIN loaded[c] :
          c \in {PromptCategories[n] : n \in DOMAIN PromptCategories} =>
              loaded[c][k].entity_id # NoName /\ loaded[c][k].friendly_name # NoName

(* C6 amended: a wake-word message causes no query, call or publish; a     *)
(* forwardable transcription has its text sent to the LLM in exactly one   *)
(* query; any other transcription message causes no query and no service   *)
(* call.                                                                   *)
C6_Amended ==
    /\ Len(Of("llm")) <= 1
    /\ Returned =>
          /\ trace[1].topic = TOPIC_HOTWORD => Len(trace) = 1
          /\ (Transcription /\ Forwardable) =>
                /\ Len(Of("llm")) = 1
                /\ Of("llm")[1].user_text = trace[1].payload.text
          /\ (Transcription /\ ~Forwardable) =>
                /\ Of("llm") = <<>>
                /\ Of("ha") = <<>>

(* C6 witness: a transcription was forwarded and answered, after a message *)
(* that was not answered                                                   *)
C6_Witness ==
    /\ Returned
    /\ handled = 2
    /\ Transcription /\ Forwardable
    /\ Len(Of("llm")) = 1
    /\ pubOrder = <<2>>

(* ---------------------------------------------------------------------- *)
(* C7 - a failed LLM query is answered with the fallback                   *)
(* ---------------------------------------------------------------------- *)
LlmFailed == Of("llm") # <<>> /\ Of("llm")[1].outcome.kind \in LlmFailureKinds

(* C7: when the LLM query failed, no action is executed, no service call   *)
(* is made, every speech response sent is the fallback text, and it is     *)
(* sent once the handler has returned.                                     *)
C7_LlmFailureFallback ==
    LlmFailed =>
        /\ Of("ha") = <<>>
        /\ Of("exec") = <<>>
        /\ \A i \in DOMAIN trace : trace[i].kind = "pub" => trace[i].text = FallbackText
        /\ Returned => Of("pub") # <<>>
        /\ (Returned /\ ~PublishFailed) => Len(Of("pub")) = 1

(* C7 witness: the LLM answered with a body that is no JSON and the        *)
(* fallback was published                                                  *)
C7_Witness ==
    /\ Returned
    /\ Of("llm") # <<>>
    /\ Of("llm")[1].outcome.kind = "not_json"
    /\ Len(Of("pub")) = 1
    /\ Of("pub")[1].ok
    /\ Of("pub")[1].text = FallbackText

(* ---------------------------------------------------------------------- *)
(* C8 - a failing action is skipped                                        *)
(* ---------------------------------------------------------------------- *)
(* the action request i was attempted and named an unknown action, or its  *)
(* service call failed                                                     *)
FailingAction(i) ==
    /\ Attempted(i)
    /\ \/ ReplyItems[i].isObject /\ Get(ReplyItems[i], "name", Null) \notin KnownFunctions
       \/ \E k \in DOMAIN trace : trace[k].kind = "ha" /\ trace[k].idx = i /\ ~trace[k].ok

(* C8: for every failing action of the list no error leaves                *)
(* execute_ha_function, every later action is attempted, and the response  *)
(* published is the speech of the reply.                                   *)
C8_FailingActionSkipped ==
    \A i \in 1..Len(ReplyItems) :
        FailingAction(i) =>
            /\ \A k \in DOMAIN trace :
                  (trace[k].kind = "exec" /\ trace[k].idx = i) => trace[k].out # "raise"
            /\ (Returned /\ ~PublishFailed) =>
                  /\ \A j \in (i + 1)..Len(ReplyItems) : Attempted(j)
                  /\ Len(Of("pub")) = 1
                  /\ Of("pub")[1].text = ReplySpeech

(* ---------------------------------------------------------------------- *)
(* C9 - categorize_entities partitions its input                           *)
(* ---------------------------------------------------------------------- *)
CategoryTable ==
    [light |-> "lights", switch |-> "switches", climate |-> "climate", fan |-> "fans",
     automation |-> "automations", script |-> "scripts",
     media_player |-> "media_players", cover |-> "covers", sensor |-> "sensors",
     binary_sensor |-> "sensors"]

FirstDot(id) ==
    IF \E i \in DOMAIN id : id[i] = "."
    THEN CHOOSE i \in DOMAIN id : id[i] = "." /\ \A j \in 1..(i - 1) : id[j] # "."
    ELSE Len(id) + 1

(* the category the claim gives an entity_id *)
ClaimedCategory(id) ==
    LET d == SubSeq(id, 1, FirstDot(id) - 1)
    IN IF Len(d) = 1 /\ d[1] \in DOMAIN CategoryTable THEN CategoryTable[d[1]] ELSE "other"

RECURSIVE TotalSize(_, _)
TotalSize(categories, i) ==
    IF i > Len(Categories) THEN 0
    ELSE Len(categories[Categories[i]]) + TotalSize(categories, i + 1)

(* C9: the snapshot written for a list of entities has the ten categories; *)
(* each category holds, in input order, exactly the entities whose         *)
(* entity_id up to the first "." is mapped to it; the sizes add up to the  *)
(* number of entities.                                                     *)
C9_Partition ==
    (dpc = "done" /\ ~api.failed /\ api.states # <<>>) =>
        /\ file.kind = "json"
        /\ DOMAIN file.value = CategorySet
        /\ \A c \in CategorySet :
              LET got == file.value[c]
                  want == SelectSeq(api.states, LAMBDA e : ClaimedCategory(e.entity_id) = c)
              IN /\ Len(got) = Len(want)
                 /\ \A k \in 1..Len(want) :
                       /\ got[k].entity_id = want[k].entity_id
                       /\ got[k].state = want[k].state
        /\ TotalSize(file.value, 1) = Len(api.states)

(* C9 witness: a sensor and a binary_sensor, in this order in the input    *)
(* and in the sensors list                                                 *)
C9_Witness ==
    /\ dpc = "done"
    /\ file.kind = "json"
    /\ Len(file.value["sensors"]) = 2
    /\ file.value["sensors"][1].entity_id = <<"sensor", ".", "a">>
    /\ file.value["sensors"][2].entity_id = <<"binary_sensor", ".", "a">>

(* ---------------------------------------------------------------------- *)
(* C10 - one action request, at most one service call                      *)
(* ---------------------------------------------------------------------- *)
DomainTable ==
    [light_control |-> "light", switch_control |-> "switch",
     climate_control |-> "climate", automation_control |-> "automation",
     script_control |-> "script"]

(* the action a request asks for: Missing when it has none *)
RequestedAction(item) ==
    IF item.isObject /\ item.parameters.kind = "map" THEN item.parameters.action
    ELSE Missing

(* the service the claim gives an action name and a requested action *)
ClaimedService(name, action) ==
    IF name = "climate_control" THEN "set_temperature"
    ELSE IF name = "script_control" /\ action \in {"run", "turn_on"} THEN "turn_on"
    ELSE IF name = "automation_control" /\ action = Missing THEN "trigger"
    ELSE action

(* the values of the action for which a call is made *)
ListedActions(name) ==
    IF name \in {"light_control", "switch_control"} THEN {"turn_on", "turn_off", "toggle"}
    ELSE IF name = "automation_control"
    THEN {"trigger", "turn_on", "turn_off", "toggle", Missing}
    ELSE {"run", "turn_on", "turn_off", "toggle"}

CallsOf(i) == {k \in DOMAIN trace : trace[k].kind = "ha" /\ trace[k].idx = i}

(* the claim for request i, with listed the values of the action that     *)
(* lead to a call and service the service called                           *)
OneCallAsMapped(i, listed(_), service(_, _)) ==
    LET item == ReplyItems[i]
        name == item.name
        action == RequestedAction(item)
    IN /\ Cardinality(CallsOf(i)) <= 1
       /\ \A k \in CallsOf(i) :
             /\ item.isObject
             /\ name \in DOMAIN DomainTable
             /\ trace[k].domain = DomainTable[name]
             /\ trace[k].service = service(name, action)
       /\ (item.isObject /\ name \notin DOMAIN DomainTable) => CallsOf(i) = {}
       /\ (/\ item.isObject
           /\ name \in {"light_control", "switch_control", "automation_control",
                        "script_control"}
           /\ action \notin listed(name)) => CallsOf(i) = {}
       /\ (/\ item.isObject
           /\ name = "climate_control"
           /\ item.parameters.kind # "nonmap"
           /\ Attempted(i)
           /\ pc # "ha") => Cardinality(CallsOf(i)) = 1

(* C10 as stated: every request leads to at most one call, with the domain *)
(* of its name and the service of its action; create_reminder, unknown     *)
(* names and requests whose action is not a listed value lead to no call.  *)
C10_Original ==
    /\ \A i \in 1..Len(ReplyItems) : OneCallAsMapped(i, ListedActions, ClaimedService)
    /\ Len(Of("ha")) <= Len(ReplyItems)

(* a script request without an action is run *)
ListedActionsWithDefault(name) ==
    IF name = "script_control" THEN ListedActions(name) \cup {Missing}
    ELSE ListedActions(name)

ClaimedServiceWithDefault(name, action) ==
    IF name = "script_control" /\ action = Missing THEN "turn_on"
    ELSE ClaimedService(name, action)

(* C10 amended: as stated, except that a script request with no action     *)
(* leads to a call of script.turn_on.                                      *)
C10_Amended ==
    /\ \A i \in 1..Len(ReplyItems) :
          OneCallAsMapped(i, ListedActionsWithDefault, ClaimedServiceWithDefault)
    /\ Len(Of("ha")) <= Len(ReplyItems)

(* C10 witness: a script request with the action "run" was answered with a *)
(* call of script.turn_on that failed                                      *)
C10_Witness ==
    /\ Returned
    /\ \E k \in DOMAIN trace :
          /\ trace[k].kind = "ha"
          /\ ~trace[k].ok
          /\ trace[k].domain = "script"
          /\ trace[k].service = "turn_on"
          /\ RequestedAction(ReplyItems[trace[k].idx]) = "run"

(* ---------------------------------------------------------------------- *)
(* C11 - a response carries the sessionId of its message                   *)
(* ---------------------------------------------------------------------- *)
(* the sessionId the message being handled asks its responses to carry *)
SessionOfMessage ==
    IF trace[1].payload.sessionId = Missing THEN "default" ELSE trace[1].payload.sessionId

(* C11: every speech response sent while a transcription message is        *)
(* handled, published or failing, on the repeat path, the normal path and  *)
(* the fallback path, carries the sessionId of that message, "default"     *)
(* when it has none, and is sent for the message received last.            *)
C11_SessionOfSameMessage ==
    /\ \A i \in DOMAIN trace :
          trace[i].kind = "pub" =>
              /\ Transcription /\ ObjectPayload
              /\ trace[i].sessionId = SessionOfMessage
              /\ trace[i].siteId = "default"
    /\ pc = "tts" => frame.session_id = SessionOfMessage /\ trace[1].id = cur.id
    /\ \A i \in DOMAIN pubOrder : pubOrder[i] <= started

(* C11 witness: the fallback of a message with sessionId "s1" was          *)
(* published after its response failed, while a message with sessionId     *)
(* "s2" is waiting                                                         *)
C11_Witness ==
    /\ Returned
    /\ Len(Of("pub")) = 2
    /\ ~Of("pub")[1].ok
    /\ Of("pub")[2].ok
    /\ Of("pub")[2].text = FallbackText
    /\ Of("pub")[2].sessionId = Session1
    /\ inbox # <<>>
    /\ Head(inbox).payload.sessionId = Session2

====
